---- MODULE Spec2Model ----
(***************************************************************************)
(* Install Complexity Checker: the rule engine, the risk estimators, the   *)
(* URL coordinate extractor (src/app.py) and the address-driven entry      *)
(* point (src/unnamed/part_000).                                           *)
(*                                                                         *)
(* Units.  Lengths, heights and distances are integers in centimetres     *)
(* (50 m = 5000).  Confidence and risk are integers: millionths before     *)
(* rounding (the product of three percentages), hundredths after           *)
(* round(x, 2).  An optional value (Python None or a value) is the empty   *)
(* sequence or a one-element sequence.  A reason is the sequence of the    *)
(* parts of its text, written in ASCII, with the formatted number between  *)
(* them.                                                                   *)
(***************************************************************************)
EXTENDS Integers, Sequences, FiniteSets, TLC

VARIABLES
    \* Evaluation of one function (the function specification)
    fn,       \* the function under evaluation ("none" in the entry-point specification)
    args,     \* its arguments
    result,   \* its return value, None before the call returns
    prev,     \* the return value of the previous call with the same label (risk_score)
    pc,       \* position of the evaluation: "ready" | "done"
    \* The address-driven entry point (one browser session of the script)
    address,      \* text of the address field, kept by the widget across runs
    submitted,    \* value of the form's submit button in the current run
    save_clicked, \* value of the "Append to classifications.jsonl" button in the current run
    step,         \* position of the script run: "idle" when no run is in progress
    coords,       \* geocode_address's result in the current run
    ctx,          \* fetch_context's result in the current run
    analysis,     \* the analysis of the current run
    flagged,      \* the review flag of the current run
    screen,       \* what the current run has displayed
    calls,        \* external calls of the current run: HTTP queries, classify_auto, file appends
    log           \* the lines of classifications.jsonl

fnvars == <<fn, args, result, prev, pc>>

appvars ==
    <<address, submitted, save_clicked, step, coords, ctx, analysis, flagged, screen, calls, log>>

vars == <<fnvars, appvars>>

----------------------------------------------------------------------------
(* Optional values *)

None == << >>

Some(v) == <<v>>

Val(x) == x[1]

Min(a, b) == IF a < b THEN a ELSE b

Max(a, b) == IF a > b THEN a ELSE b

AbsDiff(a, b) == IF a >= b THEN a - b ELSE b - a

\* round(x, 1) and the format {x:.1f}: a value in centimetres to decimetres,
\* an exact tie going to the even neighbour.
Round1(x) ==
    LET q == x \div 10
        r == x % 10
    IN  IF r < 5 THEN q
        ELSE IF r > 5 THEN q + 1
        ELSE IF q % 2 = 0 THEN q ELSE q + 1

\* round(x, 2): a value in millionths to hundredths, an exact tie going to
\* the even neighbour.
Round2(x) ==
    LET q == x \div 10000
        r == x % 10000
    IN  IF r < 5000 THEN q
        ELSE IF r > 5000 THEN q + 1
        ELSE IF q % 2 = 0 THEN q ELSE q + 1

----------------------------------------------------------------------------
(* src/app.py: classify *)

FacadeLimit == 5000

AerialLimit == 800

\* Lines 57-66: the resolved network type.
ResolveNetType(facade_len_m, aerial_height_m, provided_network_type) ==
    IF provided_network_type = "auto"
    THEN IF aerial_height_m # None THEN "aerial"
         ELSE IF facade_len_m # None THEN "facade"
         ELSE "underground"
    ELSE provided_network_type

\* Each rule yields the sequence of (vote, reason) pairs it appends: empty
\* when the rule does not apply to the network type, else one pair.
\* FacadeRule with the threshold comparison written >= instead of >.
FacadeRuleInclusive(net_type, facade_len_m) ==
    IF net_type # "facade" THEN << >>
    ELSE IF facade_len_m = None
    THEN << [vote |-> "borderline",
             reason |-> <<"Facade: length unknown -> cannot decide; marking as borderline.">>] >>
    ELSE IF Val(facade_len_m) >= FacadeLimit
    THEN << [vote |-> "complex",
             reason |-> <<"Facade length", Round1(Val(facade_len_m)), "m > 50 m -> complex.">>] >>
    ELSE << [vote |-> "simple",
             reason |-> <<"Facade length", Round1(Val(facade_len_m)), "m <= 50 m -> simple.">>] >>

FacadeRule(net_type, facade_len_m) ==
    IF net_type # "facade" THEN << >>
    ELSE IF facade_len_m = None
    THEN << [vote |-> "borderline",
             reason |-> <<"Facade: length unknown -> cannot decide; marking as borderline.">>] >>
    ELSE IF Val(facade_len_m) > FacadeLimit
    THEN << [vote |-> "complex",
             reason |-> <<"Facade length", Round1(Val(facade_len_m)), "m > 50 m -> complex.">>] >>
    ELSE << [vote |-> "simple",
             reason |-> <<"Facade length", Round1(Val(facade_len_m)), "m <= 50 m -> simple.">>] >>

\* AerialRule without its network-type guard once the height is known.
AerialRuleUnguarded(net_type, aerial_height_m) ==
    IF aerial_height_m = None
    THEN IF net_type # "aerial" THEN << >>
         ELSE << [vote |-> "borderline",
                  reason |-> <<"Aerial: attachment height unknown -> cannot decide; marking as borderline.">>] >>
    ELSE IF Val(aerial_height_m) > AerialLimit
    THEN << [vote |-> "complex",
             reason |-> <<"Aerial attachment", Round1(Val(aerial_height_m)), "m > 8 m -> complex.">>] >>
    ELSE << [vote |-> "simple",
             reason |-> <<"Aerial attachment", Round1(Val(aerial_height_m)), "m <= 8 m -> simple.">>] >>

AerialRule(net_type, aerial_height_m) ==
    IF net_type # "aerial" THEN << >>
    ELSE IF aerial_height_m = None
    THEN << [vote |-> "borderline",
             reason |-> <<"Aerial: attachment height unknown -> cannot decide; marking as borderline.">>] >>
    ELSE IF Val(aerial_height_m) > AerialLimit
    THEN << [vote |-> "complex",
             reason |-> <<"Aerial attachment", Round1(Val(aerial_height_m)), "m > 8 m -> complex.">>] >>
    ELSE << [vote |-> "simple",
             reason |-> <<"Aerial attachment", Round1(Val(aerial_height_m)), "m <= 8 m -> simple.">>] >>

\* UndergroundRule testing the truth of the flag before its presence, so
\* that an unknown flag counts as "no digging".
UndergroundRuleFalsy(net_type, public_dig_required) ==
    IF net_type # "underground" THEN << >>
    ELSE IF public_dig_required # None /\ Val(public_dig_required)
    THEN << [vote |-> "complex",
             reason |-> <<"Underground path requires digging in public area -> complex.">>] >>
    ELSE << [vote |-> "simple",
             reason |-> <<"Underground path stays on private domain only -> simple.">>] >>

UndergroundRule(net_type, public_dig_required) ==
    IF net_type # "underground" THEN << >>
    ELSE IF public_dig_required = None
    THEN << [vote |-> "borderline",
             reason |-> <<"Underground: public digging unknown -> cannot decide; marking as borderline.">>] >>
    ELSE IF Val(public_dig_required)
    THEN << [vote |-> "complex",
             reason |-> <<"Underground path requires digging in public area -> complex.">>] >>
    ELSE << [vote |-> "simple",
             reason |-> <<"Underground path stays on private domain only -> simple.">>] >>

\* Lines 107-113: the label of a sequence of votes.
Aggregate(votes) ==
    LET has(v) == \E i \in 1..Len(votes) : votes[i] = v
    IN  IF has("complex") THEN "complex"
        ELSE IF has("borderline") /\ ~has("simple") THEN "borderline"
        ELSE "simple"

\* The function returns (label, reasons, net_type); votes is its local list,
\* kept in the record so that the number of rules that fired can be stated.
Classify(facade_len_m, aerial_height_m, public_dig_required, provided_network_type) ==
    LET net_type == ResolveNetType(facade_len_m, aerial_height_m, provided_network_type)
        fired == FacadeRule(net_type, facade_len_m)
                 \o AerialRule(net_type, aerial_height_m)
                 \o UndergroundRule(net_type, public_dig_required)
        votes == [i \in 1..Len(fired) |-> fired[i].vote]
    IN  [label    |-> Aggregate(votes),
         reasons  |-> [i \in 1..Len(fired) |-> fired[i].reason],
         net_type |-> net_type,
         votes    |-> votes]

----------------------------------------------------------------------------
(* src/app.py: risk_score *)

\* abs(facade_len_m - 50) < bound.  The bounds 5 and 10 and the lengths that
\* lie exactly on them are exact in binary floating point.
FacadeDistLt(len, bound) == AbsDiff(len, FacadeLimit) < bound

\* abs(aerial_height_m - 8) < bound, in IEEE-754 double arithmetic: the
\* subtraction is inexact on the boundary, 7.2 - 8 = -0.7999999999999998
\* (< 0.8), 8.8 - 8 = 0.8000000000000007, 6.4 - 8 = -1.5999999999999996 and
\* 9.6 - 8 = 1.5999999999999996 (both < 1.6).
AerialDistLt(h, bound) ==
    \/ AbsDiff(h, AerialLimit) < bound
    \/ bound = 80 /\ h = 720
    \/ bound = 160 /\ h \in {640, 960}

\* Lines 124-132 and 134-142: the dampening factor of a known quantity, in
\* percent.
FacadeFactor(facade_len_m) ==
    IF facade_len_m = None THEN 100
    ELSE IF FacadeDistLt(Val(facade_len_m), 500) THEN 60
    ELSE IF FacadeDistLt(Val(facade_len_m), 1000) THEN 80
    ELSE 100

AerialFactor(aerial_height_m) ==
    IF aerial_height_m = None THEN 100
    ELSE IF AerialDistLt(Val(aerial_height_m), 80) THEN 60
    ELSE IF AerialDistLt(Val(aerial_height_m), 160) THEN 80
    ELSE 100

Missing(facade_len_m, aerial_height_m, public_dig_required) ==
    (IF facade_len_m = None THEN 1 ELSE 0)
    + (IF aerial_height_m = None THEN 1 ELSE 0)
    + (IF public_dig_required = None THEN 1 ELSE 0)

\* MissingPenalty with the penalty added to the confidence instead of taken
\* from it.
MissingPenaltyRaised(missing) ==
    IF missing = 1 THEN 115
    ELSE IF missing = 2 THEN 135
    ELSE IF missing >= 3 THEN 150
    ELSE 100

\* Lines 147-153: the missing-field penalty, in percent.
MissingPenalty(missing) ==
    IF missing = 1 THEN 85
    ELSE IF missing = 2 THEN 65
    ELSE IF missing >= 3 THEN 50
    ELSE 100

\* ClipBorderline with the clipping skipped.
ClipSkipped(confidence, label) == confidence

\* Lines 155-157: the clipping of a borderline label, in millionths.
ClipBorderline(confidence, label) ==
    IF label = "borderline" THEN Min(confidence, 500000) ELSE confidence

\* Returns (risk, confidence), both in hundredths.
RiskScore(facade_len_m, aerial_height_m, public_dig_required, label) ==
    LET damped == FacadeFactor(facade_len_m) * AerialFactor(aerial_height_m)
        missing == Missing(facade_len_m, aerial_height_m, public_dig_required)
        confidence == ClipBorderline(damped * MissingPenalty(missing), label)
        risk == 1000000 - confidence
    IN  [risk |-> Round2(risk), confidence |-> Round2(confidence)]

----------------------------------------------------------------------------
(* src/unnamed/part_000: feature retrieval helpers                         *)
(*                                                                         *)
(* An element of an Overpass answer is [type, tags, center, d]: tags is a  *)
(* set of <<key, value>> pairs, center tells whether the element carries a *)
(* "center", and d is the great-circle distance (cm) from the query point  *)
(* to the element (to its center for a way).                               *)

TagIs(tags, k, v) == <<k, v>> \in tags

HasKey(tags, k) == \E p \in tags : p[1] = k

\* haversine(lat, lon, el.lat, el.lon): the distance the element lies at.
Haversine(el) == el.d

IsSidewalkWay(el) ==
    /\ el.type = "way"
    /\ \/ HasKey(el.tags, "sidewalk")
       \/ TagIs(el.tags, "highway", "footway") /\ TagIs(el.tags, "footway", "sidewalk")

presence_sidewalk(elements, radius_cm) ==
    \E i \in 1..Len(elements) :
        /\ IsSidewalkWay(elements[i])
        /\ elements[i].center
        /\ Haversine(elements[i]) <= radius_cm

IsPole(el) ==
    /\ el.type = "node"
    /\ \/ TagIs(el.tags, "power", "pole")
       \/ TagIs(el.tags, "man_made", "utility_pole")
       \/ TagIs(el.tags, "telecom", "pole")

IsCabinet(el) ==
    /\ el.type = "node"
    /\ \/ TagIs(el.tags, "man_made", "street_cabinet")
       \/ TagIs(el.tags, "telecom", "cabinet")

\* cand.sort(key=d); cand[0]: the least distance among the candidates, None
\* when there is none.  Only the distance of the returned triple is used.
FirstSorted(cand) ==
    IF cand = {} THEN None
    ELSE Some(CHOOSE d \in cand : \A e \in cand : d <= e)

nearest_pole(elements) ==
    FirstSorted({Haversine(elements[i]) : i \in {j \in 1..Len(elements) : IsPole(elements[j])}})

nearest_cabinet(elements) ==
    FirstSorted({Haversine(elements[i]) : i \in {j \in 1..Len(elements) : IsCabinet(elements[j])}})

----------------------------------------------------------------------------
(* src/unnamed/part_000: classify_auto *)

SidewalkRadius == 2500

PoleNear == 2000

CabinetRange == 12000

DefaultFacadeLen == 3500

\* InferType with the sidewalk signal tested before the pole signal.
InferTypeSidewalkFirst(pole_info, has_sidewalk) ==
    IF has_sidewalk THEN "underground"
    ELSE IF pole_info # None THEN "aerial"
    ELSE "facade"

\* Lines 171-177.
InferType(pole_info, has_sidewalk) ==
    IF pole_info # None THEN "aerial"
    ELSE IF has_sidewalk THEN "underground"
    ELSE "facade"

\* Lines 184-188; round(d, 1) keeps decimetres, written here in cm.
EstimateFacadeLen(inferred_type, cab_info) ==
    IF inferred_type # "facade" THEN None
    ELSE IF cab_info # None /\ Val(cab_info) < CabinetRange
    THEN Some(Round1(Val(cab_info)) * 10)
    ELSE Some(DefaultFacadeLen)

\* Lines 190-194.
EstimateAerialHeight(inferred_type, pole_info) ==
    IF inferred_type # "aerial" THEN None
    ELSE IF pole_info # None
    THEN (IF Val(pole_info) < PoleNear THEN Some(850) ELSE Some(900))
    ELSE Some(850)

\* EstimatePublicDig leaving the flag at its initial None.
EstimatePublicDigUnset(inferred_type, has_sidewalk) == None

\* Lines 196-197.
EstimatePublicDig(inferred_type, has_sidewalk) ==
    IF inferred_type # "underground" THEN None ELSE Some(has_sidewalk)

\* Lines 203-237: the rule block, as in classify but with its own reasons.
AutoFacadeRule(inferred_type, facade_len_m) ==
    IF inferred_type # "facade" THEN << >>
    ELSE IF facade_len_m = None
    THEN << [vote |-> "borderline", reason |-> <<"Facade: lengte onbekend -> borderline.">>] >>
    ELSE IF Val(facade_len_m) > FacadeLimit
    THEN << [vote |-> "complex",
             reason |-> <<"Facade lengte", Round1(Val(facade_len_m)), "m > 50 m -> complex.">>] >>
    ELSE << [vote |-> "simple",
             reason |-> <<"Facade lengte", Round1(Val(facade_len_m)), "m <= 50 m -> simple.">>] >>

AutoAerialRule(inferred_type, aerial_height_m) ==
    IF inferred_type # "aerial" THEN << >>
    ELSE IF aerial_height_m = None
    THEN << [vote |-> "borderline", reason |-> <<"Aerial: hoogte onbekend -> borderline.">>] >>
    ELSE IF Val(aerial_height_m) > AerialLimit
    THEN << [vote |-> "complex",
             reason |-> <<"Aerial bevestiging", Round1(Val(aerial_height_m)), "m > 8 m -> complex.">>] >>
    ELSE << [vote |-> "simple",
             reason |-> <<"Aerial bevestiging", Round1(Val(aerial_height_m)), "m <= 8 m -> simple.">>] >>

AutoUndergroundRule(inferred_type, public_dig_required) ==
    IF inferred_type # "underground" THEN << >>
    ELSE IF public_dig_required = None
    THEN << [vote |-> "borderline",
             reason |-> <<"Underground: public digging onbekend -> borderline.">>] >>
    ELSE IF Val(public_dig_required)
    THEN << [vote |-> "complex",
             reason |-> <<"Underground: publieke zone (stoep) kruist -> complex.">>] >>
    ELSE << [vote |-> "simple", reason |-> <<"Underground: enkel private zone -> simple.">>] >>

\* Lines 246-256: the additive risk, in hundredths.
AdditiveRisk(inferred_type, cab_info, pole_info, public_dig_required, label) ==
    LET r0 == 35
        r1 == r0 + (IF inferred_type = "facade" /\ cab_info = None THEN 25 ELSE 0)
        r2 == r1 + (IF inferred_type = "aerial" /\ pole_info = None THEN 25 ELSE 0)
        r3 == r2 + (IF inferred_type = "underground" /\ public_dig_required = None
                    THEN 25 ELSE 0)
        r4 == IF label = "borderline" THEN Max(r3, 55) ELSE r3
    IN  Min(100, Max(0, r4))

OptRound1(x) == IF x = None THEN None ELSE Some(Round1(Val(x)))

\* ctx.get("elements", [])
CtxElements(cx) == IF cx.elements = None THEN << >> ELSE Val(cx.elements)

classify_auto(cx) ==
    LET elements == CtxElements(cx)
        has_sidewalk == presence_sidewalk(elements, SidewalkRadius)
        pole_info == nearest_pole(elements)
        cab_info == nearest_cabinet(elements)
        inferred_type == InferType(pole_info, has_sidewalk)
        facade_len_m == EstimateFacadeLen(inferred_type, cab_info)
        aerial_height_m == EstimateAerialHeight(inferred_type, pole_info)
        public_dig_required == EstimatePublicDig(inferred_type, has_sidewalk)
        fired == AutoFacadeRule(inferred_type, facade_len_m)
                 \o AutoAerialRule(inferred_type, aerial_height_m)
                 \o AutoUndergroundRule(inferred_type, public_dig_required)
        votes == [i \in 1..Len(fired) |-> fired[i].vote]
        label == Aggregate(votes)
    IN  [label               |-> label,
         network_type        |-> inferred_type,
         facade_length_m     |-> facade_len_m,
         aerial_height_m     |-> aerial_height_m,
         public_dig_required |-> public_dig_required,
         has_sidewalk_nearby |-> Some(has_sidewalk),
         nearest_pole_m      |-> OptRound1(pole_info),
         nearest_cabinet_m   |-> OptRound1(cab_info),
         risk_score          |-> AdditiveRisk(inferred_type, cab_info, pole_info,
                                              public_dig_required, label),
         reasons             |-> [i \in 1..Len(fired) |-> fired[i].reason]]

----------------------------------------------------------------------------
(* Feature contexts *)

MaxElems == 2

Node(tags, d) == [type |-> "node", tags |-> tags, center |-> FALSE, d |-> d]

Way(tags, center, d) == [type |-> "way", tags |-> tags, center |-> center, d |-> d]

Elements ==
    { Node({<<"power", "pole">>}, 1999),
      Node({<<"power", "pole">>}, 2000),
      Node({<<"man_made", "utility_pole">>}, 2000),
      Node({<<"telecom", "pole">>}, 1999),
      Node({<<"man_made", "street_cabinet">>}, 3000),
      Node({<<"man_made", "street_cabinet">>}, 5004),
      Node({<<"man_made", "street_cabinet">>}, 5006),
      Node({<<"man_made", "street_cabinet">>}, 12000),
      Node({<<"telecom", "cabinet">>}, 11999),
      Node({<<"highway", "street_lamp">>}, 0),
      Node({<<"highway", "footway">>, <<"footway", "sidewalk">>}, 0),
      Node({}, 0),
      Way({<<"highway", "residential">>, <<"sidewalk", "both">>}, TRUE, 2500),
      Way({<<"highway", "residential">>, <<"sidewalk", "both">>}, TRUE, 2501),
      Way({<<"highway", "residential">>, <<"sidewalk", "both">>}, FALSE, 0),
      Way({<<"highway", "footway">>, <<"footway", "sidewalk">>}, TRUE, 2500),
      Way({<<"highway", "footway">>, <<"footway", "crossing">>}, TRUE, 0),
      Way({<<"building", "yes">>}, TRUE, 0),
      Way({<<"power", "pole">>}, TRUE, 0) }

SeqsUpTo(S, n) == UNION {[1..k -> S] : k \in 0..n}

\* A successful answer: with no "elements" key, or with a list of elements.
Contexts ==
    {[error |-> None, elements |-> e] :
        e \in {None} \cup {Some(s) : s \in SeqsUpTo(Elements, MaxElems)}}

----------------------------------------------------------------------------
(* src/app.py: extract_coords_and_pano                                     *)
(*                                                                         *)
(* A URL is a sequence of one-character strings.  The regular expressions  *)
(* are matched as re.search matches them: at the leftmost position where   *)
(* the pattern matches, each \d+ and [\w-]+ taking the longest run (what   *)
(* follows a run is never a character of the run, so backtracking into a   *)
(* run cannot make a failed match succeed).                                *)

Digits == {"0", "1", "2", "3", "4", "5", "6", "7", "8", "9"}

DigitVal ==
    ("0" :> 0) @@ ("1" :> 1) @@ ("2" :> 2) @@ ("3" :> 3) @@ ("4" :> 4) @@
    ("5" :> 5) @@ ("6" :> 6) @@ ("7" :> 7) @@ ("8" :> 8) @@ ("9" :> 9)

\* [\w-] over the characters that occur in the URLs of the model.
PanoChars == Digits \cup {"a", "b", "c", "d", "l", "n", "o", "p", "z", "_", "-"}

\* The index just past the longest run of characters of C that starts at i.
RECURSIVE RunEnd(_, _, _)
RunEnd(s, i, C) == IF i <= Len(s) /\ s[i] \in C THEN RunEnd(s, i + 1, C) ELSE i

LitAt(s, i, lit) ==
    /\ i + Len(lit) - 1 <= Len(s)
    /\ SubSeq(s, i, i + Len(lit) - 1) = lit

\* -?\d+\.\d+ at i: the index just past the match, 0 when there is none.
NumEnd(s, i) ==
    LET j == IF i <= Len(s) /\ s[i] = "-" THEN i + 1 ELSE i
        k == RunEnd(s, j, Digits)
        e == RunEnd(s, k + 1, Digits)
    IN  IF k > j /\ k <= Len(s) /\ s[k] = "." /\ e > k + 1 THEN e ELSE 0

\* A coordinate pattern: pre (-?\d+\.\d+) mid (-?\d+\.\d+) post, pre being
\* one of several literals.
PatAt == [pre |-> {<<"@">>}, mid |-> <<",">>, post |-> <<",">>]

Pat3d4d == [pre |-> {<<"!", "3", "d">>}, mid |-> <<"!", "4", "d">>, post |-> << >>]

PatCbll ==
    [pre |-> {<<"?", "c", "b", "l", "l", "=">>, <<"&", "c", "b", "l", "l", "=">>},
     mid |-> <<",">>, post |-> << >>]

PanoPre == {<<"?", "p", "a", "n", "o", "=">>, <<"&", "p", "a", "n", "o", "=">>}

\* The two groups of the pattern matched at position i, None when it does
\* not match there.
MatchAt(s, i, pat) ==
    IF ~(\E p \in pat.pre : LitAt(s, i, p)) THEN None
    ELSE LET a == i + Len(CHOOSE p \in pat.pre : LitAt(s, i, p))
             b == NumEnd(s, a)
             c == b + Len(pat.mid)
             d == NumEnd(s, c)
         IN  IF b = 0 \/ ~LitAt(s, b, pat.mid) THEN None
             ELSE IF d = 0 \/ ~LitAt(s, d, pat.post) THEN None
             ELSE Some(<<SubSeq(s, a, b - 1), SubSeq(s, c, d - 1)>>)

\* re.search(pat, url): the match at the leftmost matching position.
Search(s, pat) ==
    LET at == {i \in 1..Len(s) : MatchAt(s, i, pat) # None}
    IN  IF at = {} THEN None
        ELSE MatchAt(s, CHOOSE i \in at : \A j \in at : i <= j, pat)

\* re.search(r'[?&]pano=([\w-]+)', url): the group, None without a match.
SearchPano(s) ==
    LET ok(i) == \E p \in PanoPre : LitAt(s, i, p) /\ RunEnd(s, i + Len(p), PanoChars) > i + Len(p)
        at == {i \in 1..Len(s) : ok(i)}
    IN  IF at = {} THEN None
        ELSE LET i == CHOOSE k \in at : \A j \in at : k <= j
                 a == i + Len(CHOOSE p \in PanoPre : LitAt(s, i, p))
             IN  Some(SubSeq(s, a, RunEnd(s, a, PanoChars) - 1))

RECURSIVE DigitsToInt(_)
DigitsToInt(ds) ==
    IF ds = << >> THEN 0
    ELSE DigitsToInt(SubSeq(ds, 1, Len(ds) - 1)) * 10 + DigitVal[ds[Len(ds)]]

\* float(text) of a text -?\d+\.\d+, in millionths: the URLs of the model
\* carry at most six fraction digits.
Float(txt) ==
    LET neg == txt[1] = "-"
        body == IF neg THEN Tail(txt) ELSE txt
        dot == CHOOSE k \in 1..Len(body) : body[k] = "."
        frac == SubSeq(body, dot + 1, Len(body))
        frac6 == SubSeq(frac \o <<"0", "0", "0", "0", "0", "0">>, 1, 6)
        mag == DigitsToInt(SubSeq(body, 1, dot - 1)) * 1000000 + DigitsToInt(frac6)
    IN  IF neg THEN 0 - mag ELSE mag

\* AssignCoords keeping coordinates that an earlier pattern has set.
AssignCoordsIfUnset(cur, m) ==
    IF m # None /\ cur = <<None, None>>
    THEN <<Some(Float(Val(m)[1])), Some(Float(Val(m)[2]))>>
    ELSE cur

\* "if m: lat, lon = float(m.group(1)), float(m.group(2))": a match
\* overwrites the coordinates found so far.
AssignCoords(cur, m) ==
    IF m # None THEN <<Some(Float(Val(m)[1])), Some(Float(Val(m)[2]))>> ELSE cur

extract_coords_and_pano(url) ==
    LET c0 == <<None, None>>
        c1 == AssignCoords(c0, Search(url, PatAt))
        c2 == AssignCoords(c1, Search(url, Pat3d4d))
        pano == SearchPano(url)
        c4 == AssignCoords(c2, Search(url, PatCbll))
    IN  [lat |-> c4[1], lon |-> c4[2], pano |-> pano]

----------------------------------------------------------------------------
(* URLs: concatenations of fragments of map links *)

MaxFrags == 3

Fragments ==
    { <<"@", "1", ".", "5", ",", "2", ".", "5", ",">>,
      <<"@", "-", "7", ".", "2", "5", ",", "8", ".", "0", ",">>,
      <<"@", "1", ".", "5", ",", "2", ".", "5">>,
      <<"!", "3", "d", "3", ".", "5", "!", "4", "d", "4", ".", "5">>,
      <<"?", "c", "b", "l", "l", "=", "5", ".", "5", ",", "6", ".", "5">>,
      <<"&", "c", "b", "l", "l", "=", "-", "9", ".", "5", ",", "6", ".", "2", "5">>,
      <<"c", "b", "l", "l", "=", "0", ".", "5", ",", "0", ".", "5">>,
      <<"&", "p", "a", "n", "o", "=", "a", "-", "b">>,
      <<"/", "z">>,
      <<"7">>,
      <<",">> }

RECURSIVE Concat(_)
Concat(ss) == IF ss = << >> THEN << >> ELSE Head(ss) \o Concat(Tail(ss))

Urls == {Concat(fs) : fs \in SeqsUpTo(Fragments, MaxFrags)}

----------------------------------------------------------------------------
(* src/unnamed/part_000: geocode_address                                   *)
(*                                                                         *)
(* A provider reply is [kind, coord]: "raise" (transport error or          *)
(* timeout), "not_ok" (HTTP status outside 2xx), "malformed" (a body that  *)
(* is not the expected JSON), "empty" (no result) or "found" with the      *)
(* coordinate of the first result.                                         *)

Coordinates == {<<0, 0>>, <<50633, 5567>>}

ProviderReplies ==
    {[kind |-> k, coord |-> None] : k \in {"raise", "not_ok", "malformed", "empty"}}
    \cup {[kind |-> "found", coord |-> Some(c)] : c \in Coordinates}

\* One provider block (lines 30-42, 45-57): the coordinate of a reply, None
\* for every failure.
ProviderCoord(reply) == IF reply.kind = "found" THEN reply.coord ELSE None

\* geocode_address giving up when the primary provider fails with an
\* exception, instead of falling back.
geocode_address_no_fallback(has_key, google, nominatim) ==
    LET g == IF has_key THEN ProviderCoord(google) ELSE None
        asked_g == IF has_key THEN << [op |-> "google", outcome |-> google.kind] >> ELSE << >>
    IN  IF g # None \/ (has_key /\ google.kind \in {"raise", "malformed"})
        THEN [coords |-> g, queried |-> asked_g]
        ELSE [coords |-> ProviderCoord(nominatim),
              queried |-> asked_g \o << [op |-> "nominatim", outcome |-> nominatim.kind] >>]

\* The result and the providers queried, in order, with what each answered.
geocode_address(has_key, google, nominatim) ==
    LET g == IF has_key THEN ProviderCoord(google) ELSE None
        asked_g == IF has_key THEN << [op |-> "google", outcome |-> google.kind] >> ELSE << >>
    IN  IF g # None
        THEN [coords |-> g, queried |-> asked_g]
        ELSE [coords |-> ProviderCoord(nominatim),
              queried |-> asked_g \o << [op |-> "nominatim", outcome |-> nominatim.kind] >>]

\* GOOGLE_API_KEY set or not, and what each provider would answer.
GeocodeInputs ==
    [has_key : BOOLEAN, google : ProviderReplies, nominatim : ProviderReplies]

----------------------------------------------------------------------------
(* Inputs of the function specification *)

\* Facade lengths (cm) around the 50 m threshold and the 5 m and 10 m bands.
FacadeLens == {0, 3500, 4000, 4001, 4500, 4501, 5000, 5001, 5004, 5499, 5500, 6000, 12000}

\* Attachment heights (cm) around the 8 m threshold and the 0.8 m and 1.6 m bands.
AerialHeights == {0, 640, 641, 720, 721, 800, 801, 850, 879, 880, 900, 960}

Opt(S) == {None} \cup {Some(v) : v \in S}

NetTypes == {"auto", "facade", "aerial", "underground"}

Labels == {"simple", "complex", "borderline"}

Observations ==
    [facade_len_m : Opt(FacadeLens), aerial_height_m : Opt(AerialHeights),
     public_dig_required : Opt(BOOLEAN)]

ClassifyInputs ==
    {[obs |-> o, provided_network_type |-> n] : o \in Observations, n \in NetTypes}

RiskInputs == {[obs |-> o, label |-> l] : o \in Observations, l \in Labels}

ObsFields == {"facade_len_m", "aerial_height_m", "public_dig_required"}

----------------------------------------------------------------------------
(* The function specification: Init draws a function and its arguments,    *)
(* one action per function applies it.                                     *)

\* The entry point's variables take no part in the function specification.
AppIdle ==
    /\ address = << >> /\ submitted = FALSE /\ save_clicked = FALSE /\ step = "idle"
    /\ coords = None /\ ctx = None /\ analysis = None /\ flagged = None
    /\ screen = {} /\ calls = << >> /\ log = << >>

Init ==
    /\ AppIdle
    /\ pc = "ready"
    /\ result = None
    /\ prev = None
    /\ \/ fn = "classify" /\ args \in ClassifyInputs
       \/ fn = "risk_score" /\ args \in RiskInputs
       \/ fn = "classify_auto" /\ args \in Contexts
       \/ fn = "extract_coords_and_pano" /\ args \in Urls
       \/ fn = "geocode_address" /\ args \in GeocodeInputs

CallClassify ==
    /\ pc = "ready" /\ fn = "classify"
    /\ result' = Classify(args.obs.facade_len_m, args.obs.aerial_height_m,
                          args.obs.public_dig_required, args.provided_network_type)
    /\ pc' = "done"
    /\ UNCHANGED <<fn, args, prev>>
    /\ UNCHANGED appvars

CallRiskScore ==
    /\ pc = "ready" /\ fn = "risk_score"
    /\ result' = RiskScore(args.obs.facade_len_m, args.obs.aerial_height_m,
                           args.obs.public_dig_required, args.label)
    /\ pc' = "done"
    /\ UNCHANGED <<fn, args, prev>>
    /\ UNCHANGED appvars

\* A second call of risk_score with the same label and the same fields,
\* except that one known field is now unknown.
RecallRiskScore ==
    /\ pc = "done" /\ fn = "risk_score"
    /\ \E f \in ObsFields :
          /\ args.obs[f] # None
          /\ LET o == [args.obs EXCEPT ![f] = None]
             IN  /\ args' = [args EXCEPT !.obs = o]
                 /\ result' = RiskScore(o.facade_len_m, o.aerial_height_m,
                                        o.public_dig_required, args.label)
    /\ prev' = result
    /\ UNCHANGED <<fn, pc>>
    /\ UNCHANGED appvars

CallClassifyAuto ==
    /\ pc = "ready" /\ fn = "classify_auto"
    /\ result' = classify_auto(args)
    /\ pc' = "done"
    /\ UNCHANGED <<fn, args, prev>>
    /\ UNCHANGED appvars

CallExtract ==
    /\ pc = "ready" /\ fn = "extract_coords_and_pano"
    /\ result' = extract_coords_and_pano(args)
    /\ pc' = "done"
    /\ UNCHANGED <<fn, args, prev>>
    /\ UNCHANGED appvars

CallGeocode ==
    /\ pc = "ready" /\ fn = "geocode_address"
    /\ result' = geocode_address(args.has_key, args.google, args.nominatim)
    /\ pc' = "done"
    /\ UNCHANGED <<fn, args, prev>>
    /\ UNCHANGED appvars

Next ==
    \/ CallClassify
    \/ CallRiskScore
    \/ RecallRiskScore
    \/ CallClassifyAuto
    \/ CallExtract
    \/ CallGeocode

Spec == Init /\ [][Next]_vars

----------------------------------------------------------------------------
(* src/unnamed/part_000: fetch_context *)

\* An Overpass reply: overpass_query raises (transport error, timeout,
\* raise_for_status or a body that is not JSON) or returns the answer.
OverpassFailures == {"ConnectionError", "Timeout", "HTTPError", "JSONDecodeError"}

OverpassReplies ==
    {[ok |-> FALSE, exc |-> e, data |-> None] : e \in OverpassFailures}
    \cup {[ok |-> TRUE, exc |-> None, data |-> Some(c)] : c \in Contexts}

\* fetch_context with a failure answered by an empty context.
fetch_context_empty(reply) ==
    IF reply.ok THEN Val(reply.data) ELSE [error |-> None, elements |-> Some(<< >>)]

\* Lines 119-123.
fetch_context(reply) ==
    IF reply.ok THEN Val(reply.data) ELSE [error |-> Some(reply.exc), elements |-> None]

----------------------------------------------------------------------------
(* src/unnamed/part_000: the script, lines 272-373                         *)
(*                                                                         *)
(* Streamlit runs the script from the top at every interaction.  A button  *)
(* is true only in the run its click caused; a widget can be used only if  *)
(* the previous run rendered it; the text of a field persists.             *)

Addresses == {<< >>, <<" ">>, <<"R", "u", "e">>, <<" ", "R", "u", "e", " ">>}

RECURSIVE LStrip(_)
LStrip(t) == IF t # << >> /\ Head(t) = " " THEN LStrip(Tail(t)) ELSE t

RECURSIVE RStrip(_)
RStrip(t) == IF t # << >> /\ t[Len(t)] = " " THEN RStrip(SubSeq(t, 1, Len(t) - 1)) ELSE t

\* address.strip()
Strip(t) == RStrip(LStrip(t))

\* Lines 299-310.
NoContextAnalysis ==
    [label               |-> "borderline",
     network_type        |-> "facade",
     facade_length_m     |-> None,
     aerial_height_m     |-> None,
     public_dig_required |-> None,
     has_sidewalk_nearby |-> None,
     nearest_pole_m      |-> None,
     nearest_cabinet_m   |-> None,
     risk_score          |-> 70,
     reasons             |-> << <<"Geen contextdata -> markeer als borderline en stuur naar review.">> >>]

\* Line 339.
Flagged(a) == a.risk_score >= 60 \/ a.label = "borderline"

\* Lines 350-368: the fields of a record that depend on the analysis.
Record(case_id, addr, c, a) ==
    [case_id |-> case_id, address |-> addr, coords |-> c, decision |-> a.label,
     risk_score |-> a.risk_score, reasons |-> a.reasons, network_type |-> a.network_type]

\* The position after the geocoding block when st.stop() is left out.
AfterGeocodeNoStop(c) == "fetch"

\* Lines 280-284: st.stop() ends the run when the address is unresolved.
AfterGeocode(c) == IF c = None THEN "idle" ELSE "fetch"

AppInit ==
    /\ fn = "none" /\ args = None /\ result = None /\ prev = None /\ pc = "done"
    /\ address = << >>
    /\ submitted = FALSE
    /\ save_clicked = FALSE
    /\ step = "idle"
    /\ coords = None /\ ctx = None /\ analysis = None /\ flagged = None
    /\ screen = {"info"}
    /\ calls = << >>
    /\ log = << >>

\* A new run starts: the locals and the page of the previous run are gone.
StartRun(form, button) ==
    /\ submitted' = form
    /\ save_clicked' = button
    /\ step' = "start"
    /\ coords' = None /\ ctx' = None /\ analysis' = None /\ flagged' = None
    /\ screen' = {}
    /\ calls' = << >>
    /\ UNCHANGED log
    /\ UNCHANGED fnvars

\* The user submits the form with an address.
SubmitForm ==
    /\ step = "idle"
    /\ \E a \in Addresses : address' = a
    /\ StartRun(TRUE, FALSE)

\* The user presses "Append to classifications.jsonl".
ClickSave ==
    /\ step = "idle"
    /\ "save_button" \in screen
    /\ UNCHANGED address
    /\ StartRun(FALSE, TRUE)

\* The user edits the "Case ID / label" field.
EditCaseId ==
    /\ step = "idle"
    /\ "save_button" \in screen
    /\ UNCHANGED address
    /\ StartRun(FALSE, FALSE)

\* Lines 276 and 372-373.
RunGuard ==
    /\ step = "start"
    /\ IF submitted /\ Strip(address) # << >>
       THEN step' = "geocode" /\ UNCHANGED screen
       ELSE step' = "idle" /\ screen' = {"info"}
    /\ UNCHANGED <<address, submitted, save_clicked, coords, ctx, analysis, flagged, calls, log>>
    /\ UNCHANGED fnvars

\* Lines 277-293.
Geocode ==
    /\ step = "geocode"
    /\ \E has_key \in BOOLEAN, google \in ProviderReplies, nominatim \in ProviderReplies :
          LET r == geocode_address(has_key, google, nominatim)
          IN  /\ coords' = r.coords
              /\ calls' = calls \o r.queried
              /\ screen' = screen \cup (IF r.coords = None THEN {"geocode_error"} ELSE {"location"})
              /\ step' = AfterGeocode(r.coords)
    /\ UNCHANGED <<address, submitted, save_clicked, ctx, analysis, flagged, log>>
    /\ UNCHANGED fnvars

\* Line 295.
FetchContext ==
    /\ step = "fetch"
    /\ \E reply \in OverpassReplies :
          /\ ctx' = Some(fetch_context(reply))
          /\ calls' = Append(calls, [op |-> "overpass",
                                     outcome |-> IF reply.ok THEN "ok" ELSE "raise"])
    /\ step' = "analyse"
    /\ UNCHANGED <<address, submitted, save_clicked, coords, analysis, flagged, screen, log>>
    /\ UNCHANGED fnvars

\* Lines 297-312.
Analyse ==
    /\ step = "analyse"
    /\ IF Val(ctx).error # None
       THEN /\ analysis' = Some(NoContextAnalysis)
            /\ screen' = screen \cup {"context_warning"}
            /\ UNCHANGED calls
       ELSE /\ analysis' = Some(classify_auto(Val(ctx)))
            /\ calls' = Append(calls, [op |-> "classify_auto", outcome |-> "ok"])
            /\ UNCHANGED screen
    /\ step' = "render"
    /\ UNCHANGED <<address, submitted, save_clicked, coords, ctx, flagged, log>>
    /\ UNCHANGED fnvars

\* Lines 314-371: the result, the review flag, the save button and, when the
\* button is true in this run, the append.
Render ==
    /\ step = "render"
    /\ LET a == Val(analysis)
           f == Flagged(a)
       IN  /\ flagged' = Some(f)
           /\ IF save_clicked
              THEN /\ log' = Append(log, Record(Strip(address), Strip(address), coords, a))
                   /\ calls' = Append(calls, [op |-> "append", outcome |-> "ok"])
                   /\ screen' = screen \cup {"result", IF f THEN "review_warning" ELSE "no_review",
                                             "save_button", "saved"}
              ELSE /\ screen' = screen \cup {"result", IF f THEN "review_warning" ELSE "no_review",
                                             "save_button"}
                   /\ UNCHANGED <<log, calls>>
    /\ step' = "idle"
    /\ UNCHANGED <<address, submitted, save_clicked, coords, ctx, analysis>>
    /\ UNCHANGED fnvars

AppNext ==
    \/ SubmitForm
    \/ ClickSave
    \/ EditCaseId
    \/ RunGuard
    \/ Geocode
    \/ FetchContext
    \/ Analyse
    \/ Render

AppSpec == AppInit /\ [][AppNext]_vars

----------------------------------------------------------------------------
(* Properties of the rule engines and of the risk estimators (Spec) *)

Returned(f) == fn = f /\ pc = "done"

\* C1: in classify and in the rule block of classify_auto, a facade type
\* with a known length L gives complex iff L > 50 m and simple iff
\* L <= 50 m; an aerial type with a known height H gives complex iff
\* H > 8 m and simple iff H <= 8 m, whatever the other fields are.
C1_ThresholdRule ==
    LET rule(type, facade, aerial, label) ==
            /\ (type = "facade" /\ facade # None) =>
                  /\ label = "complex" <=> Val(facade) > 5000
                  /\ label = "simple" <=> Val(facade) <= 5000
            /\ (type = "aerial" /\ aerial # None) =>
                  /\ label = "complex" <=> Val(aerial) > 800
                  /\ label = "simple" <=> Val(aerial) <= 800
    IN  /\ Returned("classify") =>
              rule(result.net_type, args.obs.facade_len_m, args.obs.aerial_height_m,
                   result.label)
        /\ Returned("classify_auto") =>
              rule(result.network_type, result.facade_length_m, result.aerial_height_m,
                   result.label)

\* classify decided a facade of exactly 50 m, with the other fields known.
C1_Witness ==
    /\ Returned("classify")
    /\ result.net_type = "facade"
    /\ args.obs.facade_len_m = Some(5000)
    /\ args.obs.aerial_height_m # None
    /\ result.label = "simple"

\* C2: classify with resolved type underground gives complex when
\* public_dig_required is true, simple when it is false and borderline when
\* it is unknown, whatever the facade length and aerial height are.
C2_UndergroundRule ==
    (Returned("classify") /\ result.net_type = "underground") =>
        /\ args.obs.public_dig_required = Some(TRUE) => result.label = "complex"
        /\ args.obs.public_dig_required = Some(FALSE) => result.label = "simple"
        /\ args.obs.public_dig_required = None => result.label = "borderline"

\* classify decided an underground case with the dig flag unknown and the
\* facade length known.
C2_Witness ==
    /\ Returned("classify")
    /\ result.net_type = "underground"
    /\ args.obs.public_dig_required = None
    /\ args.obs.facade_len_m # None
    /\ result.label = "borderline"

\* C3: for every input of classify exactly one rule fires: one vote, one
\* reason, the label is that vote, and the label is borderline iff the
\* deciding quantity of the resolved network type is absent.
C3_OneRuleFires ==
    Returned("classify") =>
        LET deciding ==
                IF result.net_type = "facade" THEN args.obs.facade_len_m
                ELSE IF result.net_type = "aerial" THEN args.obs.aerial_height_m
                ELSE args.obs.public_dig_required
        IN  /\ Len(result.votes) = 1
            /\ Len(result.reasons) = 1
            /\ result.label = result.votes[1]
            /\ result.label = "borderline" <=> deciding = None

\* classify resolved "auto" to underground with every quantity unknown.
C3_Witness ==
    /\ Returned("classify")
    /\ args.provided_network_type = "auto"
    /\ result.net_type = "underground"
    /\ result.votes = <<"borderline">>

\* C4: the risk returned by risk_score and by classify_auto, and the
\* confidence returned by risk_score, lie in [0, 1] (0..100 hundredths).
C4_RiskInUnitInterval ==
    /\ Returned("risk_score") =>
          /\ result.risk >= 0 /\ result.risk <= 100
          /\ result.confidence >= 0 /\ result.confidence <= 100
    /\ Returned("classify_auto") =>
          result.risk_score >= 0 /\ result.risk_score <= 100

\* risk_score returned with one field missing and both known quantities far
\* from their thresholds.
C4_Witness ==
    /\ Returned("risk_score")
    /\ Missing(args.obs.facade_len_m, args.obs.aerial_height_m,
               args.obs.public_dig_required) = 1
    /\ result.risk = 15
    /\ result.confidence = 85

\* C5: risk_score called with the label borderline returns a confidence of
\* at most 0.5 and a risk of at least 0.5, whatever fields are known.
C5_BorderlineClipped ==
    (Returned("risk_score") /\ args.label = "borderline") =>
        result.confidence <= 50 /\ result.risk >= 50

\* risk_score returned for a borderline label with every field known.
C5_Witness ==
    /\ Returned("risk_score")
    /\ args.label = "borderline"
    /\ Missing(args.obs.facade_len_m, args.obs.aerial_height_m,
               args.obs.public_dig_required) = 0
    /\ result.confidence = 50

\* C6: when a call of risk_score is repeated with the same label and one
\* known field made unknown, the risk of the second call is at least the
\* risk of the first.
C6_RiskMonotoneInUnknowns ==
    (Returned("risk_score") /\ prev # None) => result.risk >= prev.risk

\* C9: classify_auto infers aerial when the context holds a pole-like node,
\* else underground when a sidewalk-tagged way has its center within 25 m,
\* else facade.
C9_InferencePriority ==
    Returned("classify_auto") =>
        LET els == IF args.elements = None THEN << >> ELSE args.elements[1]
            pole == \E i \in 1..Len(els) :
                        /\ els[i].type = "node"
                        /\ els[i].tags \cap {<<"power", "pole">>, <<"man_made", "utility_pole">>,
                                             <<"telecom", "pole">>} # {}
            sidewalk == \E i \in 1..Len(els) :
                        /\ els[i].type = "way"
                        /\ \/ \E p \in els[i].tags : p[1] = "sidewalk"
                           \/ {<<"highway", "footway">>, <<"footway", "sidewalk">>}
                                 \subseteq els[i].tags
                        /\ els[i].center
                        /\ els[i].d <= 2500
        IN  result.network_type =
                IF pole THEN "aerial" ELSE IF sidewalk THEN "underground" ELSE "facade"

\* classify_auto returned for a context with a pole and a nearby sidewalk.
C9_Witness ==
    /\ Returned("classify_auto")
    /\ result.nearest_pole_m # None
    /\ result.has_sidewalk_nearby = Some(TRUE)
    /\ result.network_type = "aerial"

\* The coordinates a match of a pattern carries.
CoordsOf(m) == <<Some(Float(Val(m)[1])), Some(Float(Val(m)[2]))>>

MatchesOf(url) == <<Search(url, PatAt), Search(url, Pat3d4d), Search(url, PatCbll)>>

\* C10, as claimed: the coordinates returned are those of the first matching
\* pattern in the order '@lat,lon,', '!3dLAT!4dLON', 'cbll=lat,lon'; without
\* a match both are unresolved.
C10_FirstMatchWins ==
    Returned("extract_coords_and_pano") =>
        LET m == MatchesOf(args)
            hit == {i \in 1..3 : m[i] # None}
        IN  <<result.lat, result.lon>> =
                IF hit = {} THEN <<None, None>>
                ELSE CoordsOf(m[CHOOSE i \in hit : \A j \in hit : i <= j])

\* C10, amended: the patterns are applied in that order and each match
\* overwrites the coordinates, so the coordinates returned are those of the
\* last matching pattern; without a match both are unresolved.
C10_LastMatchWins ==
    Returned("extract_coords_and_pano") =>
        LET m == MatchesOf(args)
            hit == {i \in 1..3 : m[i] # None}
        IN  <<result.lat, result.lon>> =
                IF hit = {} THEN <<None, None>>
                ELSE CoordsOf(m[CHOOSE i \in hit : \A j \in hit : i >= j])

\* The extractor returned for a URL in which the '@' pattern and the 'cbll'
\* pattern match with different values.
C10_Witness ==
    /\ Returned("extract_coords_and_pano")
    /\ LET m == MatchesOf(args)
       IN  /\ m[1] # None /\ m[3] # None
           /\ CoordsOf(m[1]) # CoordsOf(m[3])
           /\ <<result.lat, result.lon>> = CoordsOf(m[3])

----------------------------------------------------------------------------
(* Properties of the address-driven entry point (AppSpec) *)

Called(op) == \E i \in 1..Len(calls) : calls[i].op = op

OverpassRaised ==
    \E i \in 1..Len(calls) : calls[i].op = "overpass" /\ calls[i].outcome = "raise"

\* C7: when overpass_query raises, the failure is caught and the run goes
\* on with the analysis borderline, risk 0.7, type facade, the three
\* quantities unknown and one reason; classify_auto is not run and the case
\* is flagged for review.
C7_FetchFailureFallback ==
    OverpassRaised =>
        /\ step \in {"analyse", "render", "idle"}
        /\ ctx # None /\ Val(ctx).error # None
        /\ ~Called("classify_auto")
        /\ step \in {"render", "idle"} =>
              /\ analysis # None
              /\ Val(analysis).label = "borderline"
              /\ Val(analysis).risk_score = 70
              /\ Val(analysis).network_type = "facade"
              /\ Val(analysis).facade_length_m = None
              /\ Val(analysis).aerial_height_m = None
              /\ Val(analysis).public_dig_required = None
              /\ Len(Val(analysis).reasons) = 1
        /\ step = "idle" =>
              /\ flagged = Some(TRUE)
              /\ {"context_warning", "result", "review_warning"} \subseteq screen

\* A run whose context fetch failed has displayed its result.
C7_Witness ==
    /\ OverpassRaised
    /\ step = "idle"
    /\ "result" \in screen
    /\ Val(analysis).risk_score = 70

GeocodeUnresolved == Called("nominatim") /\ coords = None

\* C8: when geocode_address returns None the run reports the error and
\* stops: no context fetch, no analysis, no result displayed, no append.
C8_UnresolvedHalts ==
    GeocodeUnresolved =>
        /\ step = "idle"
        /\ "geocode_error" \in screen
        /\ ~Called("overpass")
        /\ ~Called("classify_auto")
        /\ ~Called("append")
        /\ analysis = None /\ flagged = None
        /\ screen \cap {"result", "save_button", "saved"} = {}

\* A run in which both providers were queried and neither found the address.
C8_Witness ==
    /\ GeocodeUnresolved
    /\ Called("google")
    /\ step = "idle"
    /\ "geocode_error" \in screen

----------------------------------------------------------------------------
(* Properties of geocode_address (Spec) *)

\* C11: the primary provider is queried only when a credential is present;
\* the secondary is queried exactly when the primary was skipped or yielded
\* no coordinate (exception, non-OK response, empty result); the result is
\* the primary's coordinate when it yields one, else the secondary's, and
\* None iff neither yields one.  The call returns a value for every reply.
C11_GeocodeFallback ==
    Returned("geocode_address") =>
        LET asked(op) == \E i \in 1..Len(result.queried) : result.queried[i].op = op
            primary == IF args.has_key /\ args.google.kind = "found"
                       THEN args.google.coord ELSE << >>
            secondary == IF args.nominatim.kind = "found"
                         THEN args.nominatim.coord ELSE << >>
        IN  /\ asked("google") <=> args.has_key
            /\ asked("nominatim") <=> primary = << >>
            /\ result.coords = IF primary # << >> THEN primary ELSE secondary
            /\ result.coords = << >> <=> (primary = << >> /\ secondary = << >>)
            /\ result.coords \in {<< >>} \cup {<<c>> : c \in Coordinates}
            /\ Len(result.queried) <= 2

\* The primary provider raised and the secondary found the address.
C11_Witness ==
    /\ Returned("geocode_address")
    /\ args.has_key
    /\ args.google.kind = "raise"
    /\ args.nominatim.kind = "found"
    /\ result.coords = args.nominatim.coord
    /\ Len(result.queried) = 2

----------------------------------------------------------------------------
(* Properties of the save action (AppSpec) *)

\* C12: a press of "Append to classifications.jsonl" after an analysis was
\* displayed appends exactly one record with that analysis's decision, risk
\* and reasons: when the run caused by the press has finished, it has made
\* one append, and the last line of the log carries the analysis.
C12_SaveAppendsRecord ==
    (save_clicked /\ step = "idle") =>
        /\ Cardinality({i \in 1..Len(calls) : calls[i].op = "append"}) = 1
        /\ "saved" \in screen
        /\ analysis # None
        /\ log # << >>
        /\ log[Len(log)].decision = Val(analysis).label
        /\ log[Len(log)].risk_score = Val(analysis).risk_score
        /\ log[Len(log)].reasons = Val(analysis).reasons

----------------------------------------------------------------------------
(* Properties of the labels and risks of classify_auto (Spec) *)

\* C13: classify_auto never returns borderline; an inferred type aerial
\* (chosen only with a pole, height 8.5 or 9.0) or underground (chosen only
\* with a nearby sidewalk, dig flag true) gives complex, so simple comes
\* only with facade; the risk is 0.35 or 0.6, and 0.6 exactly when the type
\* is facade and no cabinet was found.
C13_AutoLabelsAndRisk ==
    Returned("classify_auto") =>
        /\ result.label # "borderline"
        /\ result.network_type \in {"aerial", "underground"} => result.label = "complex"
        /\ result.network_type = "aerial" =>
              /\ result.nearest_pole_m # << >>
              /\ result.aerial_height_m \in {<<850>>, <<900>>}
        /\ result.network_type = "underground" =>
              /\ result.has_sidewalk_nearby = <<TRUE>>
              /\ result.public_dig_required = <<TRUE>>
        /\ result.label = "simple" => result.network_type = "facade"
        /\ result.risk_score \in {35, 60}
        /\ result.risk_score = 60 <=>
              (result.network_type = "facade" /\ result.nearest_cabinet_m = << >>)

\* classify_auto returned underground for a context with a nearby sidewalk
\* and no pole.
C13_Witness ==
    /\ Returned("classify_auto")
    /\ result.network_type = "underground"
    /\ result.label = "complex"
    /\ result.risk_score = 35

====
